---- MODULE Spec2Model ----
(***************************************************************************)
(* BasicRenderer / BasicSourceCache (src/src/basic_renderer/index.ts).     *)
(*                                                                         *)
(* The renderer keeps a registry of pending renders keyed by a fingerprint *)
(* of the canonicalized tile list; the source cache hands out reference    *)
(* counted tiles whose load is a promise with a timeout.  JavaScript runs  *)
(* one task at a time, so every handler is one atomic action; a consumer   *)
(* callback that calls back into the renderer runs inside that action.     *)
(***************************************************************************)
EXTENDS Integers, Sequences, FiniteSets, TLC

(***************************************************************************)
(* Bounds of the model.                                                    *)
(***************************************************************************)
\* number of renderTiles calls in one run
MaxRenders == 2

(***************************************************************************)
(* Program constants.                                                      *)
(***************************************************************************)
OFFSCREEN_CANV_SIZE == 1024
TILE_CACHE_SIZE == 20
\* Math.min(a, b) is folded from Infinity; every coordinate of the model is
\* far below this value, which stands for Infinity
Infinity == 1000000

(***************************************************************************)
(* Numbers and strings.  A string is the sequence of its UTF-16 code       *)
(* units, which is what Array.prototype.sort compares.                     *)
(***************************************************************************)
Min(a, b) == IF a <= b THEN a ELSE b
Max(a, b) == IF a >= b THEN a ELSE b

\* a - b of JavaScript numbers, with b possibly Infinity
Minus(a, b) == IF b = Infinity THEN -Infinity ELSE a - b

RECURSIVE Digits(_)
Digits(n) == IF n < 10 THEN <<48 + n>> ELSE Digits(n \div 10) \o <<48 + (n % 10)>>

\* `${n}` for an integer n
NumberToString(n) == IF n < 0 THEN <<45>> \o Digits(-n) ELSE Digits(n)

\* the names of the style's sources, as strings
SourceName == [a |-> <<97>>, b |-> <<98>>]
Sources == DOMAIN SourceName

\* a < b in the order of Array.prototype.sort() (code units, prefix first)
RECURSIVE StrLess(_, _)
StrLess(a, b) ==
    IF b = <<>> THEN FALSE
    ELSE IF a = <<>> THEN TRUE
    ELSE IF Head(a) # Head(b) THEN Head(a) < Head(b)
    ELSE StrLess(Tail(a), Tail(b))

RECURSIVE Insert(_, _)
Insert(s, sorted) ==
    IF sorted = <<>> THEN <<s>>
    ELSE IF StrLess(Head(sorted), s) \/ Head(sorted) = s
         THEN <<Head(sorted)>> \o Insert(s, Tail(sorted))
         ELSE <<s>> \o sorted

\* Array.prototype.sort() on strings
\* the variant that leaves the strings in the order given
Sort_asGiven(strs) == strs

RECURSIVE Sort(_)
Sort(strs) == IF strs = <<>> THEN <<>> ELSE Insert(Head(strs), Sort(Tail(strs)))

\* Array.prototype.join(' ')
RECURSIVE Join(_)
Join(strs) ==
    IF strs = <<>> THEN <<>>
    ELSE IF Len(strs) = 1 THEN strs[1]
    ELSE strs[1] \o <<32>> \o Join(Tail(strs))

RECURSIVE MinOf(_, _)
MinOf(nums, acc) == IF nums = <<>> THEN acc ELSE MinOf(Tail(nums), Min(acc, Head(nums)))

RECURSIVE MaxOf(_, _)
MaxOf(nums, acc) == IF nums = <<>> THEN acc ELSE MaxOf(Tail(nums), Max(acc, Head(nums)))


(***************************************************************************)
(* BasicRenderer._canonicalizeSpec and _tileSpecToString.                  *)
(***************************************************************************)
TileSpecLeft(s) == s.left
TileSpecTop(s) == s.top

\* the variant that forgets to move the tile placements to the origin
canonicalizeSpec_unshifted(tilesSpec, drawSpec) ==
    [tilesSpec |-> tilesSpec, drawSpec |-> drawSpec]

\* the variant that moves the tile placements and leaves the draw region
canonicalizeSpec_tilesOnly(tilesSpec, drawSpec) ==
    LET minLeft == MinOf([i_ \in 1..Len(tilesSpec) |-> TileSpecLeft(tilesSpec[i_])], Infinity)
        minTop == MinOf([i_ \in 1..Len(tilesSpec) |-> TileSpecTop(tilesSpec[i_])], Infinity)
    IN [tilesSpec |->
            [i \in 1..Len(tilesSpec) |->
                [tilesSpec[i] EXCEPT !.top = @ - minTop, !.left = @ - minLeft]],
        drawSpec |-> drawSpec]

canonicalizeSpec(tilesSpec, drawSpec) ==
    LET minLeft == MinOf([i_ \in 1..Len(tilesSpec) |-> TileSpecLeft(tilesSpec[i_])], Infinity)
        minTop == MinOf([i_ \in 1..Len(tilesSpec) |-> TileSpecTop(tilesSpec[i_])], Infinity)
    IN [tilesSpec |->
            [i \in 1..Len(tilesSpec) |->
                [source |-> tilesSpec[i].source,
                 z |-> tilesSpec[i].z,
                 x |-> tilesSpec[i].x,
                 y |-> tilesSpec[i].y,
                 top |-> tilesSpec[i].top - minTop,
                 left |-> tilesSpec[i].left - minLeft,
                 size |-> tilesSpec[i].size]],
        drawSpec |->
            [srcLeft |-> Minus(drawSpec.srcLeft, minLeft),
             srcTop |-> Minus(drawSpec.srcTop, minTop),
             width |-> drawSpec.width,
             height |-> drawSpec.height,
             destLeft |-> drawSpec.destLeft,
             destTop |-> drawSpec.destTop]]

\* `${s.source} ${s.z} ${s.x} ${s.y} ${s.left} ${s.top} ${s.size}`
TileSpecString(s) ==
    SourceName[s.source] \o <<32>> \o NumberToString(s.z) \o <<32>>
        \o NumberToString(s.x) \o <<32>> \o NumberToString(s.y) \o <<32>>
        \o NumberToString(s.left) \o <<32>> \o NumberToString(s.top) \o <<32>>
        \o NumberToString(s.size)

tileSpecToString(tilesSpec) == Join(Sort([i_ \in 1..Len(tilesSpec) |-> TileSpecString(tilesSpec[i_])]))


(***************************************************************************)
(* State.  Objects live in sequences and are named by their index: a Tile  *)
(* object is an index of tiles, a consumer (and the handle renderTiles     *)
(* returned for it) an index of consumers and handles, the continuation    *)
(* of the render with renderId r is continuations[r].                      *)
(***************************************************************************)
VARIABLES
    pendingRenders,  \* _pendingRenders: the Map, in insertion order
    nextRenderId,    \* _nextRenderId
    tiles,           \* every Tile object created by acquireTile
    tilesInUse,      \* per source: _tilesInUse, tileID.key -> tile
    tileCache,       \* per source: _tileCache, least recently added first
    consumers,       \* every consumer object {ctx, drawSpec, tilesSpec, next}
    handles,         \* the object renderTiles returned for each consumer
    continuations,   \* the closure of the .then() of each created render
    calls,           \* the next(err) calls made by the last handler, in order
    ops,             \* the calls into the renderer, the fetch backend, the painter
                     \* and the canvases made during the last handler, in order
    canceled,        \* history: the renderIds torn down by a cancellation whose
                     \* continuation has yet to run
    thrown,          \* the last handler ended by a failed assert
    input,           \* the arguments handed to a pure method checked on its own
    output           \* what the method returned for them

vars == <<pendingRenders, nextRenderId, tiles, tilesInUse, tileCache, consumers,
          handles, continuations, calls, ops, canceled, thrown, input, output>>

\* the state a handler works on
World ==
    [pendingRenders |-> pendingRenders, nextRenderId |-> nextRenderId,
     tiles |-> tiles, tilesInUse |-> tilesInUse, tileCache |-> tileCache,
     consumers |-> consumers, handles |-> handles,
     continuations |-> continuations, calls |-> <<>>, ops |-> <<>>,
     canceled |-> canceled, thrown |-> FALSE]

(***************************************************************************)
(* Objects nothing refers to any more are garbage: a consumer and its      *)
(* handle once the caller has released the handle and no pending render    *)
(* lists the consumer; a Tile once no map, cache, handle, pending render,  *)
(* waiting continuation, timer or fetch refers to it.  Their slot keeps    *)
(* the index and loses the content.                                        *)
(***************************************************************************)
DeadConsumer == [drawSpec |-> <<>>, tilesSpec |-> <<>>, beh |-> "dead", signals |-> <<>>]
DeadHandle == [renderId |-> 0, consumer |-> 0, tiles |-> <<>>, tileSetID |-> <<>>, released |-> TRUE]
DeadTile == [cache |-> "dead", key |-> <<>>, size |-> 0, uses |-> 0,
             loadedPromise |-> "null", promise |-> "none", timeout |-> "none",
             request |-> "none", isDud |-> FALSE, hasData |-> FALSE, reason |-> "none"]
DeadContinuation == [tileSetID |-> <<>>, renderId |-> 0, tiles |-> <<>>, tilesSpec |-> <<>>,
                     drawSpec |-> <<>>, ran |-> TRUE]

Range(s) == {s[i] : i \in 1..Len(s)}

Collect(w) ==
    LET listed == UNION {Range(w.pendingRenders[i].consumers) : i \in 1..Len(w.pendingRenders)}
        liveConsumer(c) == ~w.handles[c].released \/ c \in listed
        liveTiles ==
            UNION ({Range(w.pendingRenders[i].tiles) : i \in 1..Len(w.pendingRenders)}
                   \cup {Range(w.handles[c].tiles) : c \in {x \in 1..Len(w.handles) : ~w.handles[x].released}}
                   \cup {Range(w.continuations[r].tiles) : r \in {x \in 1..Len(w.continuations) : ~w.continuations[x].ran}}
                   \cup {{w.tilesInUse[s][k] : k \in DOMAIN w.tilesInUse[s]} : s \in Sources}
                   \cup {Range(w.tileCache[s]) : s \in Sources})
            \cup {t \in 1..Len(w.tiles) : w.tiles[t].timeout = "armed" \/ w.tiles[t].request = "inflight"}
    IN [w EXCEPT
           !.consumers = [c \in 1..Len(w.consumers) |->
                             IF liveConsumer(c) THEN w.consumers[c] ELSE DeadConsumer],
           !.handles = [c \in 1..Len(w.handles) |->
                           IF liveConsumer(c) THEN w.handles[c] ELSE DeadHandle],
           !.tiles = [t \in 1..Len(w.tiles) |->
                         IF t \in liveTiles THEN w.tiles[t] ELSE DeadTile],
           !.continuations = [r \in 1..Len(w.continuations) |->
                                 IF w.continuations[r].ran THEN DeadContinuation
                                 ELSE w.continuations[r]],
           !.canceled = {r \in w.canceled : ~w.continuations[r].ran}]

\* the state a handler leaves
Becomes(w0) ==
    \E w \in {Collect(w0)} :
    /\ pendingRenders' = w.pendingRenders
    /\ nextRenderId' = w.nextRenderId
    /\ tiles' = w.tiles
    /\ tilesInUse' = w.tilesInUse
    /\ tileCache' = w.tileCache
    /\ consumers' = w.consumers
    /\ handles' = w.handles
    /\ continuations' = w.continuations
    /\ calls' = w.calls
    /\ ops' = w.ops
    /\ canceled' = w.canceled
    /\ thrown' = w.thrown
    /\ UNCHANGED <<input, output>>

\* outcomes handed to next(err)
Success == [kind |-> "null", failed |-> 0, total |-> 0]
Canceled == [kind |-> "canceled", failed |-> 0, total |-> 0]
FullyCanceled == [kind |-> "fully-canceled", failed |-> 0, total |-> 0]
\* `${failed} of ${total} tiles not available`
NotAvailable(failed, total) == [kind |-> "tiles not available", failed |-> failed, total |-> total]

\* a call of the fetch backend, the painter or a consumer's canvas context
Op(name, rid, target, rect, ts) ==
    [op |-> name, rid |-> rid, target |-> target, rect |-> rect, tiles |-> ts]

Log(w, o) == [w EXCEPT !.ops = Append(@, o)]

(***************************************************************************)
(* BasicSourceCache.                                                       *)
(***************************************************************************)
\* new Tile(tileID.wrapped(), size)
NewTile(source, key, size) ==
    [cache |-> source, key |-> key, size |-> size, uses |-> 0,
     loadedPromise |-> "undefined", promise |-> "none", timeout |-> "none",
     request |-> "none", isDud |-> FALSE, hasData |-> FALSE, reason |-> "none"]

Put(f, k, v) == [x \in DOMAIN f \cup {k} |-> IF x = k THEN v ELSE f[x]]
Remove(f, k) == [x \in DOMAIN f \ {k} |-> f[x]]

\* the variant without tile.uses++
acquireTile_uncounted(w, source, key, size) ==
    LET t == Len(w.tiles) + 1
        tile == NewTile(source, key, size)
        w1 == [w EXCEPT !.tiles = Append(@, tile),
                        !.tilesInUse[source] = Put(@, key, t)]
    IN Log([w1 EXCEPT !.tiles[t].loadedPromise = "set",
                      !.tiles[t].promise = "pending",
                      !.tiles[t].timeout = "armed",
                      !.tiles[t].request = "inflight"],
           Op("loadTile", 0, t, <<>>, <<>>))

acquireTile(w, source, key, size) ==
    LET t == Len(w.tiles) + 1
        tile == [NewTile(source, key, size) EXCEPT !.uses = @ + 1]
        w1 == [w EXCEPT !.tiles = Append(@, tile),
                        !.tilesInUse[source] = Put(@, key, t)]
    IN IF tile.loadedPromise = "set"
       THEN w1
       ELSE Log([w1 EXCEPT !.tiles[t].loadedPromise = "set",
                           !.tiles[t].promise = "pending",
                           !.tiles[t].timeout = "armed",
                           !.tiles[t].request = "inflight"],
                Op("loadTile", 0, t, <<>>, <<>>))

\* the variant whose cache drops an evicted tile without unloading it
cacheOnRemove_none(w, t) == w

\* the onRemove handed to the Cache: (t) => this._source.unloadTile(t), lines 593-595
cacheOnRemove(w, t) ==
    Log([w EXCEPT !.tiles[t].hasData = FALSE], Op("unloadTile", 0, t, <<>>, <<>>))

\* Cache.add of ../source/tile_cache: append; beyond max, drop the oldest entry
\* and hand it to onRemove
tileCacheAdd(w, source, t) ==
    LET order == Append(w.tileCache[source], t)
    IN IF Len(order) > TILE_CACHE_SIZE
       THEN cacheOnRemove([w EXCEPT !.tileCache[source] = Tail(order)], Head(order))
       ELSE [w EXCEPT !.tileCache[source] = order]

\* the variant that keeps every tile nobody uses
worthKeeping_always(tile) == TRUE

\* tile.hasData() || tile._isDud, line 662
worthKeeping(tile) == tile.hasData \/ tile.isDud

\* the variant without the assert of line 657
releaseTile_unchecked(w, t) ==
    LET tile == w.tiles[t]
    IN IF tile.uses - 1 > 0 THEN [w EXCEPT !.tiles[t].uses = @ - 1]
       ELSE LET w1 == [w EXCEPT !.tiles[t].uses = @ - 1,
                                !.tilesInUse[tile.cache] = Remove(@, tile.key)]
            IN IF worthKeeping(tile)
               THEN tileCacheAdd(w1, tile.cache, t)
               ELSE Log(Log([w1 EXCEPT !.tiles[t].request =
                                  IF @ = "inflight" THEN "aborted" ELSE @],
                            Op("abortTile", 0, t, <<>>, <<>>)),
                        Op("unloadTile", 0, t, <<>>, <<>>))

releaseTile(w, t) ==
    LET tile == w.tiles[t]
    IN IF ~(tile.uses > 0) THEN [w EXCEPT !.thrown = TRUE]
       ELSE IF tile.uses - 1 > 0 THEN [w EXCEPT !.tiles[t].uses = @ - 1]
       ELSE LET w1 == [w EXCEPT !.tiles[t].uses = @ - 1,
                                !.tilesInUse[tile.cache] = Remove(@, tile.key)]
            IN IF worthKeeping(tile)
               THEN tileCacheAdd(w1, tile.cache, t)
               ELSE Log(Log([w1 EXCEPT !.tiles[t].request =
                                  IF @ = "inflight" THEN "aborted" ELSE @],
                            Op("abortTile", 0, t, <<>>, <<>>)),
                        Op("unloadTile", 0, t, <<>>, <<>>))

\* loaded(), lines 672-680; sourceLoaded is what this._source.loaded() answers
loaded(w, source, sourceLoaded) ==
    IF ~sourceLoaded THEN FALSE
    ELSE IF Cardinality(DOMAIN w.tilesInUse[source]) > 0 THEN FALSE
    ELSE TRUE

\* the variant that clears the load promise of dud tiles as well
invalidateAllLoadedTiles_duds(w, source) ==
    LET tracked == {w.tilesInUse[source][k] : k \in DOMAIN w.tilesInUse[source]}
                       \cup {w.tileCache[source][i] : i \in 1..Len(w.tileCache[source])}
    IN Log([w EXCEPT !.tiles =
                [t \in 1..Len(w.tiles) |->
                    IF t \in tracked
                    THEN [w.tiles[t] EXCEPT !.loadedPromise = "null"]
                    ELSE w.tiles[t]]],
           Op("invalidateAllLoadedTiles", 0, 0, <<>>, <<source>>))

invalidateAllLoadedTiles(w, source) ==
    LET tracked == {w.tilesInUse[source][k] : k \in DOMAIN w.tilesInUse[source]}
                       \cup {w.tileCache[source][i] : i \in 1..Len(w.tileCache[source])}
    IN Log([w EXCEPT !.tiles =
                [t \in 1..Len(w.tiles) |->
                    IF t \in tracked /\ ~w.tiles[t].isDud
                    THEN [w.tiles[t] EXCEPT !.loadedPromise = "null"]
                    ELSE w.tiles[t]]],
           Op("invalidateAllLoadedTiles", 0, 0, <<>>, <<source>>))

\* the callback handed to _source.loadTile, lines 627-636
loadTileCallback(w, t, err) ==
    LET w1 == [w EXCEPT !.tiles[t].request = "called",
                        !.tiles[t].timeout = IF @ = "armed" THEN "cleared" ELSE @]
    IN IF err
       THEN [w1 EXCEPT !.tiles[t].isDud = TRUE,
                       !.tiles[t].reason = IF w.tiles[t].promise = "pending" THEN "err" ELSE @,
                       !.tiles[t].promise = IF @ = "pending" THEN "rejected" ELSE @]
       ELSE [w1 EXCEPT !.tiles[t].hasData = TRUE,
                       !.tiles[t].promise = IF @ = "pending" THEN "resolved" ELSE @]

\* the variant whose timer aborts the fetch and leaves the promise pending
loadTimeout_keepsPending(w, t) ==
    Log([w EXCEPT !.tiles[t].timeout = "fired",
                  !.tiles[t].request = IF @ = "inflight" THEN "aborted" ELSE @,
                  !.tiles[t].loadedPromise = "null"],
        Op("abortTile", 0, t, <<>>, <<>>))

\* the variant whose timer also gives up a use of the tile
loadTimeout_dropsUse(w, t) ==
    Log([w EXCEPT !.tiles[t].timeout = "fired",
                  !.tiles[t].request = IF @ = "inflight" THEN "aborted" ELSE @,
                  !.tiles[t].loadedPromise = "null",
                  !.tiles[t].uses = IF @ > 0 THEN @ - 1 ELSE @,
                  !.tiles[t].reason = IF w.tiles[t].promise = "pending" THEN "timeout" ELSE @,
                  !.tiles[t].promise = IF @ = "pending" THEN "rejected" ELSE @],
        Op("abortTile", 0, t, <<>>, <<>>))

\* the setTimeout callback, lines 622-626; reason is what the promise is
\* rejected with: new Error('timeout') here, err in the loadTile callback
loadTimeout(w, t) ==
    Log([w EXCEPT !.tiles[t].timeout = "fired",
                  !.tiles[t].request = IF @ = "inflight" THEN "aborted" ELSE @,
                  !.tiles[t].loadedPromise = "null",
                  !.tiles[t].reason = IF w.tiles[t].promise = "pending" THEN "timeout" ELSE @,
                  !.tiles[t].promise = IF @ = "pending" THEN "rejected" ELSE @],
        Op("abortTile", 0, t, <<>>, <<>>))


(***************************************************************************)
(* BasicRenderer.                                                          *)
(***************************************************************************)
\* _pendingRenders.get(tileSetID): the position of the entry, 0 for undefined
PendingIndex(w, tileSetID) ==
    LET found == {i \in 1..Len(w.pendingRenders) :
                      w.pendingRenders[i].tileSetID = tileSetID}
    IN IF found = {} THEN 0 ELSE CHOOSE i \in found : TRUE

\* the position of the state object with this renderId, 0 once it is deleted
StateIndex(w, renderId) ==
    LET found == {i \in 1..Len(w.pendingRenders) :
                      w.pendingRenders[i].renderId = renderId}
    IN IF found = {} THEN 0 ELSE CHOOSE i \in found : TRUE

\* _pendingRenders.delete(tileSetID)
PendingDelete(w, tileSetID) ==
    LET keep(s) == s.tileSetID # tileSetID
    IN [w EXCEPT !.pendingRenders = SelectSeq(@, keep)]

\* state && state.renderId === renderId
isCurrent(w, tileSetID, renderId) ==
    LET i == PendingIndex(w, tileSetID)
    IN i # 0 /\ w.pendingRenders[i].renderId = renderId

\* the variant that only tests that some state is registered
releaseIsCurrent_anyState(w, renderRef) == PendingIndex(w, renderRef.tileSetID) # 0

\* the test of releaseRender, line 339
releaseIsCurrent(w, renderRef) == isCurrent(w, renderRef.tileSetID, renderRef.renderId)

\* the variant that only tests that some state is registered
continuationIsCurrent_anyState(w, k) == PendingIndex(w, k.tileSetID) # 0

\* the test of the continuation, line 402
continuationIsCurrent(w, k) == isCurrent(w, k.tileSetID, k.renderId)

\* the variant that takes the consumers last first
shiftConsumer_pop(list) ==
    [first |-> list[Len(list)], rest |-> SubSeq(list, 1, Len(list) - 1)]

\* state.consumers.shift()
shiftConsumer(list) == [first |-> Head(list), rest |-> Tail(list)]

\* the variant that leaves the consumer in the list
spliceConsumer_keep(list, c) == list

\* idx = consumers.indexOf(c); if (idx !== -1) consumers.splice(idx, 1)
spliceConsumer(list, c) ==
    LET at == {i \in 1..Len(list) : list[i] = c}
    IN IF at = {} THEN list
       ELSE LET idx == CHOOSE i \in at : \A j \in at : i <= j
            IN SubSeq(list, 1, idx - 1) \o SubSeq(list, idx + 1, Len(list))

\* the variant that reports success whatever failed
renderError_null(failed, total) == Success

\* badTileIdxs.length ? `${badTileIdxs.length} of ${tilesSpec.length} tiles not available` : null
renderError(failed, total) ==
    IF failed # 0 THEN NotAvailable(failed, total) ELSE Success

RECURSIVE releaseTiles(_, _)
\* renderRef.tiles.forEach(t => t.cache.releaseTile(t)); a failed assert ends it
releaseTiles(w, ts) ==
    IF ts = <<>> \/ w.thrown THEN w
    ELSE releaseTiles(releaseTile(w, Head(ts)), Tail(ts))

RECURSIVE acquireTiles(_, _)
\* tilesSpec.map(s => sourceCaches[s.source].acquireTile(new OverscaledTileID(s.z, 0, s.z, s.x, s.y), s.size))
acquireTiles(w, tilesSpec) ==
    IF tilesSpec = <<>> THEN w
    ELSE LET s == Head(tilesSpec)
         IN acquireTiles(acquireTile(w, s.source, <<s.z, s.x, s.y>>, s.size),
                         Tail(tilesSpec))

renderTiles(w00, drawSpec0, tilesSpec0, beh) ==
    LET w == Log(w00, Op("renderTiles", 0, Len(w00.consumers) + 1, <<>>, <<>>))
        canon == canonicalizeSpec(tilesSpec0, drawSpec0)
        drawSpec == canon.drawSpec
        tilesSpec == canon.tilesSpec
        tileSetID == tileSpecToString(tilesSpec)
        c == Len(w.consumers) + 1
        consumer == [drawSpec |-> drawSpec, tilesSpec |-> tilesSpec,
                     beh |-> beh, signals |-> <<>>]
        i == PendingIndex(w, tileSetID)
    IN IF i # 0
       THEN LET state == w.pendingRenders[i]
                held == {state.tiles[k] : k \in 1..Len(state.tiles)}
            IN [w EXCEPT
                   !.tiles = [t \in 1..Len(w.tiles) |->
                                 IF t \in held
                                 THEN [w.tiles[t] EXCEPT !.uses = @ + 1]
                                 ELSE w.tiles[t]],
                   !.pendingRenders[i].consumers = Append(@, c),
                   !.consumers = Append(@, consumer),
                   !.handles = Append(@, [renderId |-> state.renderId,
                                          consumer |-> c,
                                          tiles |-> state.tiles,
                                          tileSetID |-> tileSetID,
                                          released |-> FALSE])]
       ELSE LET renderId == w.nextRenderId + 1
                w1 == acquireTiles([w EXCEPT !.nextRenderId = renderId], tilesSpec)
                acquired == [k \in 1..Len(tilesSpec) |-> Len(w.tiles) + k]
                state == [tileSetID |-> tileSetID, renderId |-> renderId,
                          tiles |-> acquired, consumers |-> <<c>>]
            IN [w1 EXCEPT
                   !.pendingRenders = Append(@, state),
                   !.consumers = Append(@, consumer),
                   !.continuations = Append(@, [tileSetID |-> tileSetID,
                                                renderId |-> renderId,
                                                tiles |-> acquired,
                                                tilesSpec |-> tilesSpec,
                                                drawSpec |-> drawSpec,
                                                ran |-> FALSE]),
                   !.handles = Append(@, [renderId |-> renderId,
                                          consumer |-> c,
                                          tiles |-> acquired,
                                          tileSetID |-> tileSetID,
                                          released |-> FALSE])]

RECURSIVE next(_, _, _)
RECURSIVE settleConsumers(_, _, _)
RECURSIVE finishRender(_, _, _, _)
RECURSIVE releaseRender(_, _)

\* consumer.next(err).  What the callback does is the caller's code: on its
\* first call it returns, or passes its own handle to releaseRender (when it
\* has not done so yet), or submits its request again.
next(w, c, err) ==
    LET first == w.consumers[c].signals = <<>>
        beh == w.consumers[c].beh
        w1 == [w EXCEPT !.consumers[c].signals = Append(@, err),
                        !.calls = Append(@, [consumer |-> c, err |-> err])]
    IN IF first /\ beh = "release" /\ ~w1.handles[c].released
       THEN releaseRender(w1, c)
       ELSE IF first /\ beh = "resubmit" /\ Len(w1.consumers) < MaxRenders
       THEN renderTiles(w1, w1.consumers[c].drawSpec, w1.consumers[c].tilesSpec, "return")
       ELSE w1

\* while (state.consumers.length) state.consumers.shift().next(err)
\* (lines 285-287 and 478-480); a state deleted meanwhile has no consumers
settleConsumers(w, renderId, err) ==
    LET i == StateIndex(w, renderId)
    IN IF i = 0 \/ w.pendingRenders[i].consumers = <<>> THEN w
       ELSE LET sh == shiftConsumer(w.pendingRenders[i].consumers)
                w1 == [w EXCEPT !.pendingRenders[i].consumers = sh.rest]
            IN settleConsumers(next(w1, sh.first, err), renderId, err)

finishRender(w, tileSetID, renderId, err) ==
    IF ~isCurrent(w, tileSetID, renderId) THEN w
    ELSE LET w1 == IF err.kind \in {"canceled", "fully-canceled"}
                        /\ ~w.continuations[renderId].ran
                   THEN [w EXCEPT !.canceled = @ \cup {renderId}]
                   ELSE w
         IN PendingDelete(settleConsumers(w1, renderId, err), tileSetID)

releaseRender(w, c) ==
    LET renderRef == w.handles[c]
        current == releaseIsCurrent(w, renderRef)
        w1 == releaseTiles(Log([w EXCEPT !.handles[c].released = TRUE],
                               Op("releaseRender", renderRef.renderId, c, <<>>, <<>>)),
                           renderRef.tiles)
    IN IF w1.thrown \/ ~current THEN w1
       ELSE LET w2 == next(w1, renderRef.consumer, Canceled)
                i == StateIndex(w2, renderRef.renderId)
            IN IF i = 0 THEN w2
               ELSE LET w3 == [w2 EXCEPT !.pendingRenders[i].consumers =
                                             spliceConsumer(@, renderRef.consumer)]
                    IN IF w3.pendingRenders[i].consumers = <<>>
                       THEN finishRender(w3, w3.pendingRenders[i].tileSetID,
                                         renderRef.renderId, FullyCanceled)
                       ELSE w3

RECURSIVE finishAll(_)
\* _pendingRenders.forEach(s => _finishRender(s.tileSetID, s.renderId, 'canceled'))
finishAll(w) ==
    IF w.pendingRenders = <<>> THEN w
    ELSE LET s == Head(w.pendingRenders)
         IN finishAll(finishRender(w, s.tileSetID, s.renderId, Canceled))

RECURSIVE invalidateSources(_, _)
invalidateSources(w, srcs) ==
    IF srcs = {} THEN w
    ELSE LET s == CHOOSE x \in srcs : \A y \in srcs : ~StrLess(SourceName[y], SourceName[x])
         IN invalidateSources(invalidateAllLoadedTiles(w, s), srcs \ {s})

cancelAllPendingRenders(w) ==
    invalidateSources([finishAll(Log(w, Op("cancelAllPendingRenders", 0, 0, <<>>, <<>>)))
                          EXCEPT !.pendingRenders = <<>>],
                      Sources)


(***************************************************************************)
(* The continuation of renderTiles, lines 400-485: it runs once every      *)
(* tile promise of the render has settled.  The placement matrices and     *)
(* style.update only feed the painter and are left out.                    *)
(***************************************************************************)
\* n | 0: the coordinates of the model are integers of far less than 32 bits,
\* which ToInt32 returns as they are
ToInt32(n) == n

\* for (v = from; v < to; v += OFFSCREEN_CANV_SIZE)
RECURSIVE BlockOrigins(_, _)
BlockOrigins(from, to) ==
    IF from < to THEN <<from>> \o BlockOrigins(from + OFFSCREEN_CANV_SIZE, to) ELSE <<>>

\* the variant that also takes the consumers whose rectangle only touches the block
relevantConsumers_touching(w, list, xx, yy) ==
    LET overlaps(c) ==
            LET d == w.consumers[c].drawSpec
            IN /\ d.srcLeft + d.width >= xx
               /\ d.srcLeft <= xx + OFFSCREEN_CANV_SIZE
               /\ d.srcTop + d.height >= yy
               /\ d.srcTop <= yy + OFFSCREEN_CANV_SIZE
    IN SelectSeq(list, overlaps)

\* the consumers whose source rectangle overlaps the block at (xx, yy), lines 444-448
relevantConsumers(w, list, xx, yy) ==
    LET overlaps(c) ==
            LET d == w.consumers[c].drawSpec
            IN /\ d.srcLeft + d.width > xx
               /\ d.srcLeft < xx + OFFSCREEN_CANV_SIZE
               /\ d.srcTop + d.height > yy
               /\ d.srcTop < yy + OFFSCREEN_CANV_SIZE
    IN SelectSeq(list, overlaps)

\* the variant that writes every copy at the consumer's destination origin
drawImage_atOrigin(w, rid, c, xx, yy) ==
    LET d == w.consumers[c].drawSpec
        srcLeft == ToInt32(Max(0, d.srcLeft - xx))
        srcRight == ToInt32(Min(OFFSCREEN_CANV_SIZE, d.srcLeft + d.width - xx))
        srcTop == ToInt32(Max(0, d.srcTop - yy))
        srcBottom == ToInt32(Min(OFFSCREEN_CANV_SIZE, d.srcTop + d.height - yy))
        width == srcRight - srcLeft
        height == srcBottom - srcTop
    IN Op("drawImage", rid, c,
          <<srcLeft, srcTop, width, height, d.destLeft, d.destTop, width, height>>, <<>>)

\* c.ctx.drawImage(...) of one relevant consumer, lines 465-473
drawImage(w, rid, c, xx, yy) ==
    LET d == w.consumers[c].drawSpec
        srcLeft == ToInt32(Max(0, d.srcLeft - xx))
        srcRight == ToInt32(Min(OFFSCREEN_CANV_SIZE, d.srcLeft + d.width - xx))
        srcTop == ToInt32(Max(0, d.srcTop - yy))
        srcBottom == ToInt32(Min(OFFSCREEN_CANV_SIZE, d.srcTop + d.height - yy))
        destLeft == d.destLeft + (IF d.srcLeft < xx THEN xx - d.srcLeft ELSE 0)
        destTop == d.destTop + (IF d.srcTop < yy THEN yy - d.srcTop ELSE 0)
        width == srcRight - srcLeft
        height == srcBottom - srcTop
    IN Op("drawImage", rid, c,
          <<srcLeft, srcTop, width, height, destLeft, destTop, width, height>>, <<>>)

\* one pass of the loop body, lines 439-475
renderBlock(w, rid, list, rendering, xx, yy) ==
    LET relevant == relevantConsumers(w, list, xx, yy)
    IN IF relevant = <<>> THEN <<>>
       ELSE <<Op("render", rid, 0, <<xx, yy>>, rendering)>>
                \o [j \in 1..Len(relevant) |-> drawImage(w, rid, relevant[j], xx, yy)]

RECURSIVE renderBlocks(_, _, _, _, _, _, _)
renderBlocks(w, rid, list, rendering, xs, ys, n) ==
    IF n > Len(xs) * Len(ys) THEN <<>>
    ELSE renderBlock(w, rid, list, rendering,
                     xs[((n - 1) \div Len(ys)) + 1], ys[((n - 1) % Len(ys)) + 1])
             \o renderBlocks(w, rid, list, rendering, xs, ys, n + 1)

\* the variant that lets the failed tiles through
usableTileIdxs_all(tilesSpec, bad) == [ii \in 1..Len(tilesSpec) |-> ii]

\* tilesSpec.forEach((s, ii) => { if (badTileIdxs.includes(ii)) return; ... }),
\* lines 420-423: the indices that reach currentlyRenderingTiles, in order
usableTileIdxs(tilesSpec, bad) ==
    LET usable(ii) == ii \notin bad
    IN SelectSeq([ii \in 1..Len(tilesSpec) |-> ii], usable)

\* lines 416-476: what the painter and the consumers' canvases are asked to do
composite(w, k, state, bad) ==
    LET idxs == usableTileIdxs(k.tilesSpec, bad)
        rendering == [s \in Sources |->
                         LET ofSource(ii) == k.tilesSpec[ii].source = s
                             mine == SelectSeq(idxs, ofSource)
                         IN [j \in 1..Len(mine) |-> state.tiles[mine[j]]]]
        srcLeft(c) == w.consumers[c].drawSpec.srcLeft
        srcTop(c) == w.consumers[c].drawSpec.srcTop
        srcRight(c) == w.consumers[c].drawSpec.srcLeft + w.consumers[c].drawSpec.width
        srcBottom(c) == w.consumers[c].drawSpec.srcTop + w.consumers[c].drawSpec.height
        xSrcMin == MinOf([i_ \in 1..Len(state.consumers) |-> srcLeft(state.consumers[i_])], Infinity)
        ySrcMin == MinOf([i_ \in 1..Len(state.consumers) |-> srcTop(state.consumers[i_])], Infinity)
        xSrcMax == MaxOf([i_ \in 1..Len(state.consumers) |-> srcRight(state.consumers[i_])], -Infinity)
        ySrcMax == MaxOf([i_ \in 1..Len(state.consumers) |-> srcBottom(state.consumers[i_])], -Infinity)
    IN [w EXCEPT !.ops = @ \o renderBlocks(w, k.renderId, state.consumers, rendering,
                                           BlockOrigins(xSrcMin, xSrcMax),
                                           BlockOrigins(ySrcMin, ySrcMax), 1)]

\* state.consumers.forEach(c => c.ctx.clearRect(drawSpec.destLeft, ...)), lines 410-411
clearConsumers(w, k, state) ==
    [w EXCEPT !.ops = @ \o [j \in 1..Len(state.consumers) |->
                               Op("clearRect", k.renderId, state.consumers[j],
                                  <<k.drawSpec.destLeft, k.drawSpec.destTop,
                                    k.drawSpec.width, k.drawSpec.height>>, <<>>)]]

continuation(w, rid) ==
    LET k == w.continuations[rid]
        w0 == [w EXCEPT !.continuations[rid].ran = TRUE]
        bad == {ii \in 1..Len(k.tiles) : w.tiles[k.tiles[ii]].promise = "rejected"}
        total == Len(k.tilesSpec)
    IN IF ~continuationIsCurrent(w0, k) THEN w0
       ELSE LET state == w0.pendingRenders[PendingIndex(w0, k.tileSetID)]
                err == renderError(Cardinality(bad), total)
            IN IF total - Cardinality(bad) = 0
               THEN finishRender(clearConsumers(w0, k, state), k.tileSetID, rid, err)
               ELSE PendingDelete(settleConsumers(composite(w0, k, state, bad), rid, err),
                                  k.tileSetID)

(***************************************************************************)
(* The requests of the model: one tile on source a, the same tile moved    *)
(* by 256 (with a draw region wider than the offscreen canvas), the same   *)
(* tile at another size, and no tile at all.                               *)
(***************************************************************************)
TileSpec(source, x, left, size) ==
    [source |-> source, z |-> 1, x |-> x, y |-> 0, left |-> left, top |-> 0, size |-> size]

Request(tilesSpec, srcLeft, width, height, destLeft, destTop, beh) ==
    [tilesSpec |-> tilesSpec,
     drawSpec |-> [srcLeft |-> srcLeft, srcTop |-> 0, width |-> width, height |-> height,
                   destLeft |-> destLeft, destTop |-> destTop],
     beh |-> beh]

\* what the callback of a request does: see next
Requests ==
    { Request(<<TileSpec("a", 0, 0, 256)>>, 0, 256, 256, 0, 0, "release"),
      Request(<<TileSpec("a", 0, 256, 256)>>, 256, 1100, 128, 10, 20, "return"),
      Request(<<TileSpec("a", 0, 0, 512)>>, 0, 512, 512, 0, 0, "return"),
      Request(<<>>, 0, 64, 64, 5, 5, "return") }

(***************************************************************************)
(* The handlers.                                                           *)
(***************************************************************************)
Init ==
    /\ pendingRenders = <<>>
    /\ nextRenderId = 0
    /\ tiles = <<>>
    /\ tilesInUse = [s \in Sources |-> <<>>]
    /\ tileCache = [s \in Sources |-> <<>>]
    /\ consumers = <<>>
    /\ handles = <<>>
    /\ continuations = <<>>
    /\ calls = <<>>
    /\ ops = <<>>
    /\ canceled = {}
    /\ thrown = FALSE
    /\ input = <<>>
    /\ output = <<>>

RenderTiles ==
    \E r \in Requests :
        /\ Len(consumers) < MaxRenders
        /\ Becomes(renderTiles(World, r.drawSpec, r.tilesSpec, r.beh))

\* the caller passes a handle it holds to releaseRender, once
ReleaseRender ==
    \E c \in 1..Len(handles) :
        /\ ~handles[c].released
        /\ Becomes(releaseRender(World, c))

CancelAllPendingRenders ==
    Becomes(cancelAllPendingRenders(World))

\* the fetch backend answers a loadTile it has not been told to abort
LoadTileCallback ==
    \E t \in 1..Len(tiles), err \in BOOLEAN :
        /\ tiles[t].request = "inflight"
        /\ Becomes(loadTileCallback(World, t, err))

LoadTimeout ==
    \E t \in 1..Len(tiles) :
        /\ tiles[t].timeout = "armed"
        /\ Becomes(loadTimeout(World, t))

\* Promise.all(...).catch(...).then(...): every tile promise has settled
Continuation ==
    \E rid \in 1..Len(continuations) :
        /\ ~continuations[rid].ran
        /\ \A ii \in 1..Len(continuations[rid].tiles) :
               tiles[continuations[rid].tiles[ii]].promise # "pending"
        /\ Becomes(continuation(World, rid))

Next ==
    \/ RenderTiles
    \/ ReleaseRender
    \/ CancelAllPendingRenders
    \/ LoadTileCallback
    \/ LoadTimeout
    \/ Continuation

Spec == Init /\ [][Next]_vars

\* some load timer is armed: setTimeout of line 622 not yet fired nor cleared
TimerArmed == \E t \in 1..Len(tiles) : tiles[t].timeout = "armed"

\* some render's tile promises have all settled and its reaction has yet to run
ContinuationDue ==
    \E rid \in 1..Len(continuations) :
        /\ ~continuations[rid].ran
        /\ \A ii \in 1..Len(continuations[rid].tiles) :
               tiles[continuations[rid].tiles[ii]].promise # "pending"

\* the requests of the runs checked for progress: a request whose callback
\* releases its handle, and its translation
LiveRequests ==
    { Request(<<TileSpec("a", 0, 0, 256)>>, 0, 256, 256, 0, 0, "release"),
      Request(<<TileSpec("a", 0, 256, 256)>>, 256, 1100, 128, 10, 20, "return") }

RenderTilesLive ==
    \E r \in LiveRequests :
        /\ Len(consumers) < MaxRenders
        /\ Becomes(renderTiles(World, r.drawSpec, r.tilesSpec, r.beh))

NextLive ==
    \/ RenderTilesLive
    \/ ReleaseRender
    \/ CancelAllPendingRenders
    \/ LoadTileCallback
    \/ LoadTimeout
    \/ Continuation

\* Timers fire and settled promises run their reactions; the fetch backend
\* and the callers owe nothing.  The two conjuncts are WF_vars(LoadTimeout)
\* and WF_vars(Continuation) written out, with the enabling condition of
\* each action (its guard: each of the two always changes the state) in the
\* place of ENABLED.
LiveSpec ==
    /\ Init /\ [][NextLive]_vars
    /\ ([]<>~TimerArmed \/ []<><<LoadTimeout>>_vars)
    /\ ([]<>~ContinuationDue \/ []<><<Continuation>>_vars)

(***************************************************************************)
(* _canonicalizeSpec and _tileSpecToString on their own: the arguments are *)
(* a list of up to MaxLen tile specs, a draw spec and a translation.  The   *)
(* same list is also submitted to a renderer twice, the second time in any *)
(* order.                                                                  *)
(***************************************************************************)
MaxLen == 3

InputTileSpecs ==
    {[source |-> "a", z |-> 1, x |-> x, y |-> 0, left |-> left, top |-> top, size |-> 256] :
         x \in {0, 1}, left \in {0, 256}, top \in {-3, 10}}

InputTileLists == UNION {[1..n -> InputTileSpecs] : n \in 0..MaxLen}

InputDrawSpecs ==
    {[srcLeft |-> srcLeft, srcTop |-> 0, width |-> 256, height |-> 128,
      destLeft |-> 5, destTop |-> 9] : srcLeft \in {10}}

Inputs ==
    [tilesSpec : InputTileLists, drawSpec : InputDrawSpecs, dx : {-256, 300}, dy : {7}]

\* the same request moved by (dx, dy)
Translated(tilesSpec, dx, dy) ==
    [i \in 1..Len(tilesSpec) |->
        [tilesSpec[i] EXCEPT !.left = @ + dx, !.top = @ + dy]]

TranslatedDraw(drawSpec, dx, dy) ==
    [drawSpec EXCEPT !.srcLeft = @ + dx, !.srcTop = @ + dy]

\* the orders a list of n entries can be given in
Orders(n) == {p \in [1..n -> 1..n] : \A i, j \in 1..n : p[i] = p[j] => i = j}

Permuted(tilesSpec, p) == [i \in 1..Len(tilesSpec) |-> tilesSpec[p[i]]]

InitFn ==
    /\ pendingRenders = <<>>
    /\ nextRenderId = 0
    /\ tiles = <<>>
    /\ tilesInUse = [s \in Sources |-> <<>>]
    /\ tileCache = [s \in Sources |-> <<>>]
    /\ consumers = <<>>
    /\ handles = <<>>
    /\ continuations = <<>>
    /\ calls = <<>>
    /\ ops = <<>>
    /\ canceled = {}
    /\ thrown = FALSE
    /\ input \in Inputs
    /\ output = <<>>

\* nothing has been called yet
Untouched == output = <<>> /\ consumers = <<>>

\* _canonicalizeSpec of the request and of the request moved, and the
\* fingerprints of the two results
CanonicalizeSpec ==
    /\ Untouched
    /\ LET plain == canonicalizeSpec(input.tilesSpec, input.drawSpec)
           moved == canonicalizeSpec(Translated(input.tilesSpec, input.dx, input.dy),
                                     TranslatedDraw(input.drawSpec, input.dx, input.dy))
       IN output' = [method |-> "_canonicalizeSpec",
                     plain |-> plain, moved |-> moved,
                     plainID |-> tileSpecToString(plain.tilesSpec),
                     movedID |-> tileSpecToString(moved.tilesSpec)]
    /\ UNCHANGED <<pendingRenders, nextRenderId, tiles, tilesInUse, tileCache, consumers,
                   handles, continuations, calls, ops, canceled, thrown, input>>

\* _tileSpecToString of the tile list given in every order
TileSpecToString ==
    /\ Untouched
    /\ output' = [method |-> "_tileSpecToString",
                  asGiven |-> tileSpecToString(input.tilesSpec),
                  ids |-> {tileSpecToString(Permuted(input.tilesSpec, p)) :
                               p \in Orders(Len(input.tilesSpec))}]
    /\ UNCHANGED <<pendingRenders, nextRenderId, tiles, tilesInUse, tileCache, consumers,
                   handles, continuations, calls, ops, canceled, thrown, input>>

\* renderTiles of the request
RenderTilesInput ==
    /\ Untouched
    /\ Becomes(renderTiles(World, input.drawSpec, input.tilesSpec, "return"))

\* renderTiles of the same tiles in any order, while the first render is pending
RenderTilesReordered ==
    \E p \in Orders(Len(input.tilesSpec)) :
        /\ Len(consumers) = 1
        /\ Becomes(renderTiles(World, input.drawSpec, Permuted(input.tilesSpec, p), "return"))

NextFn ==
    \/ CanonicalizeSpec
    \/ TileSpecToString
    \/ RenderTilesInput
    \/ RenderTilesReordered

SpecFn == InitFn /\ [][NextFn]_vars

(***************************************************************************)
(* One tile drawn for consumers whose source rectangles lie in one block   *)
(* of the offscreen canvas, fill one exactly, straddle the corner of four, *)
(* start left of the tile, or lie two blocks away from the others.         *)
(***************************************************************************)
DrawSpec(srcLeft, srcTop, width, height, destLeft, destTop) ==
    [srcLeft |-> srcLeft, srcTop |-> srcTop, width |-> width, height |-> height,
     destLeft |-> destLeft, destTop |-> destTop]

BlockDrawSpecs ==
    { DrawSpec(0, 0, 256, 256, 0, 0),
      DrawSpec(0, 0, 1024, 1024, 5, 5),
      DrawSpec(1000, 1000, 100, 100, 3, 4),
      DrawSpec(-300, 0, 1100, 128, 10, 20),
      DrawSpec(2048, 0, 100, 50, 7, 9),
      DrawSpec(0, 1024, 10, 2000, 0, 0) }

RenderTilesBlocks ==
    \E d \in BlockDrawSpecs :
        /\ Len(consumers) < MaxRenders
        /\ Becomes(renderTiles(World, d, <<TileSpec("a", 0, 0, 256)>>, "return"))

NextBlocks ==
    \/ RenderTilesBlocks
    \/ LoadTileCallback
    \/ LoadTimeout
    \/ Continuation

SpecBlocks == Init /\ [][NextBlocks]_vars

(***************************************************************************)
(* Consumers whose callback, on its first call, submits the request it was *)
(* given once more (see next), beside consumers that only return.          *)
(***************************************************************************)
AttachRequests ==
    { Request(<<TileSpec("a", 0, 0, 256)>>, 0, 256, 256, 0, 0, "resubmit"),
      Request(<<TileSpec("a", 0, 256, 256)>>, 256, 1100, 128, 10, 20, "return") }

RenderTilesAttach ==
    \E r \in AttachRequests :
        /\ Len(consumers) < MaxRenders
        /\ Becomes(renderTiles(World, r.drawSpec, r.tilesSpec, r.beh))

NextAttach ==
    \/ RenderTilesAttach
    \/ ReleaseRender
    \/ LoadTileCallback
    \/ LoadTimeout
    \/ Continuation

SpecAttach == Init /\ [][NextAttach]_vars

(***************************************************************************)
(* A BasicSourceCache driven directly by a caller that pairs acquireTile   *)
(* with releaseTile, may take further uses of a tile it holds (tile.uses++ *)
(* as line 371 does), and may wrongly release a tile nobody uses.  The     *)
(* caller holds one tile at a time; handles holds its references.  Only    *)
(* the first MaxFaulty tiles may fail to load, time out or be released     *)
(* while loading.                                                          *)
(***************************************************************************)
MaxFaulty == 2
MaxHeld == 2
MaxTiles == TILE_CACHE_SIZE + MaxFaulty + 2

\* the caller's reference to a tile it acquired: one entry of tiles per use held
TileRef(t) ==
    [renderId |-> 0, consumer |-> 0, tiles |-> <<t>>, tileSetID |-> <<>>, released |-> FALSE]

Held == {h \in 1..Len(handles) : ~handles[h].released}

callerAcquire(w) ==
    LET w1 == acquireTile(w, "a", <<1, Len(w.tiles), 0>>, 256)
    IN [w1 EXCEPT !.handles = Append(@, TileRef(Len(w1.tiles)))]

callerRetain(w, h) ==
    LET t == w.handles[h].tiles[1]
    IN [w EXCEPT !.tiles[t].uses = @ + 1, !.handles[h].tiles = Append(@, t)]

callerRelease(w, t) == releaseTile(Log(w, Op("releaseTile", 0, t, <<>>, <<>>)), t)

AcquireTile ==
    /\ Len(tiles) < MaxTiles
    /\ Held = {}
    /\ Becomes(callerAcquire(World))

RetainTile ==
    \E h \in Held :
        /\ Len(handles[h].tiles) < MaxHeld
        /\ Becomes(callerRetain(World, h))

ReleaseTile ==
    \E h \in Held :
        LET t == handles[h].tiles[1]
        IN /\ t <= MaxFaulty \/ tiles[t].request # "inflight"
           /\ Becomes(callerRelease([World EXCEPT
                                        !.handles[h].tiles = Tail(@),
                                        !.handles[h].released = Len(handles[h].tiles) = 1],
                                    t))

\* the caller releases once more the tile it acquired last and holds no more
ReleaseUnused ==
    /\ tiles # <<>>
    /\ tiles[Len(tiles)].cache \in Sources
    /\ tiles[Len(tiles)].uses = 0
    /\ Becomes(callerRelease(World, Len(tiles)))

TileLoadCallback ==
    \E t \in 1..Len(tiles), err \in BOOLEAN :
        /\ tiles[t].request = "inflight"
        /\ err => t <= MaxFaulty
        /\ Becomes(loadTileCallback(World, t, err))

TileLoadTimeout ==
    \E t \in 1..Len(tiles) :
        /\ tiles[t].timeout = "armed"
        /\ t <= MaxFaulty
        /\ Becomes(loadTimeout(World, t))

NextCache ==
    \/ AcquireTile
    \/ RetainTile
    \/ ReleaseTile
    \/ ReleaseUnused
    \/ TileLoadCallback
    \/ TileLoadTimeout

SpecCache == Init /\ [][NextCache]_vars

(***************************************************************************)
(* The same cache, whose owner may also call invalidateAllLoadedTiles at   *)
(* any time (a style, layer or zoom change).                               *)
(***************************************************************************)
InvalidateAllLoadedTiles ==
    /\ tiles # <<>>
    /\ Becomes(invalidateAllLoadedTiles(World, "a"))

NextInvalidate ==
    \/ AcquireTile
    \/ RetainTile
    \/ ReleaseTile
    \/ TileLoadCallback
    \/ TileLoadTimeout
    \/ InvalidateAllLoadedTiles

SpecInvalidate == Init /\ [][NextInvalidate]_vars

(***************************************************************************)
(* Renders of two tiles: the callers submit one request of two tiles of    *)
(* source a, so that one tile of a render can fail while the other loads.  *)
(***************************************************************************)
PairRequests ==
    { Request(<<TileSpec("a", 0, 0, 256), TileSpec("a", 1, 256, 256)>>,
              0, 512, 256, 0, 0, "return") }

RenderTilesPair ==
    \E r \in PairRequests :
        /\ Len(consumers) < MaxRenders
        /\ Becomes(renderTiles(World, r.drawSpec, r.tilesSpec, r.beh))

NextPair ==
    \/ RenderTilesPair
    \/ ReleaseRender
    \/ LoadTileCallback
    \/ LoadTimeout
    \/ Continuation

SpecPair == Init /\ [][NextPair]_vars


(***************************************************************************)
(* Properties.  calls and ops hold what the last handler did, so a         *)
(* statement about one call of a method is a statement about one step.     *)
(***************************************************************************)
\* a pending render is registered under this fingerprint with this renderId
Registered(tileSetID, renderId) ==
    \E i \in 1..Len(pendingRenders) :
        /\ pendingRenders[i].tileSetID = tileSetID
        /\ pendingRenders[i].renderId = renderId

RegisteredAt(tileSetID) ==
    CHOOSE i \in 1..Len(pendingRenders) : pendingRenders[i].tileSetID = tileSetID

\* the two tile lists name the same tiles, placed alike up to one translation
UniformTranslation(T1, T2) ==
    /\ Len(T1) = Len(T2)
    /\ \/ T1 = <<>>
       \/ LET dx == T1[1].left - T2[1].left
              dy == T1[1].top - T2[1].top
          IN \A i \in 1..Len(T1) :
                 /\ T1[i].source = T2[i].source
                 /\ T1[i].z = T2[i].z
                 /\ T1[i].x = T2[i].x
                 /\ T1[i].y = T2[i].y
                 /\ T1[i].size = T2[i].size
                 /\ T1[i].left = T2[i].left + dx
                 /\ T1[i].top = T2[i].top + dy

\* the handler called next of consumer c
Called(cs, c) == \E i \in 1..Len(cs) : cs[i].consumer = c

\* the position in cs of the first call of next of consumer c
FirstCall(cs, c) ==
    CHOOSE i \in 1..Len(cs) :
        cs[i].consumer = c /\ \A j \in 1..(i - 1) : cs[j].consumer # c

\* this step is a renderTiles call of the caller
SubmitStep == Len(consumers') = Len(consumers) + 1

\* C1: a renderTiles call whose tile list is a uniform translation of the
\* tile list of a consumer of a registered pending render creates no pending
\* render, no tile and no loadTile; the fingerprint keeps its one entry, and
\* the handle carries that entry's renderId and its very tile list.
C1_CoalesceTranslated ==
    [][\A i \in 1..Len(pendingRenders) :
           LET c == Len(consumers) + 1
               state == pendingRenders[i]
           IN (/\ SubmitStep
               /\ \E c0 \in Range(state.consumers) :
                      UniformTranslation(consumers'[c].tilesSpec, consumers[c0].tilesSpec))
              => /\ Len(pendingRenders') = Len(pendingRenders)
                 /\ nextRenderId' = nextRenderId
                 /\ Len(tiles') = Len(tiles)
                 /\ \A k \in 1..Len(ops') : ops'[k].op # "loadTile"
                 /\ Cardinality({j \in 1..Len(pendingRenders') :
                        pendingRenders'[j].tileSetID = handles'[c].tileSetID}) = 1
                 /\ pendingRenders'[i].renderId = state.renderId
                 /\ pendingRenders'[i].tiles = state.tiles
                 /\ handles'[c].tileSetID = state.tileSetID
                 /\ handles'[c].renderId = state.renderId
                 /\ handles'[c].tiles = state.tiles]_vars

\* C1 witness: a request and its translation (they keep their own draw
\* regions) share one pending render and one tile list, and the call that
\* attached the second issued nothing but itself.
C1_Witness ==
    /\ Len(ops) = 1 /\ ops[1].op = "renderTiles"
    /\ \E i \in 1..Len(pendingRenders) :
           LET L == pendingRenders[i].consumers
           IN /\ Len(L) = 2
              /\ consumers[L[1]].drawSpec.destLeft # consumers[L[2]].drawSpec.destLeft
              /\ handles[L[1]].tiles = handles[L[2]].tiles
              /\ handles[L[1]].renderId = handles[L[2]].renderId
              /\ Len(tiles) = 1

\* C2: no consumer's next is invoked a second time: no consumer has been
\* signalled twice, neither over the handlers so far nor within one handler.
C2_SettledExactlyOnce ==
    /\ \A c \in 1..Len(consumers) : Len(consumers[c].signals) <= 1
    /\ \A i, j \in 1..Len(calls) : calls[i].consumer = calls[j].consumer => i = j

\* C3: when a step removes a pending render, every consumer that was
\* attached to it is called, the first call of each carries one and the same
\* outcome, these calls follow the order of attachment, and no entry for the
\* fingerprint remains.
C3_SettledTogetherInOrder ==
    [][\A i \in 1..Len(pendingRenders) :
           LET state == pendingRenders[i]
               L == state.consumers
           IN (\A j \in 1..Len(pendingRenders') :
                   pendingRenders'[j].renderId # state.renderId)
              => /\ \A j \in 1..Len(pendingRenders') :
                        pendingRenders'[j].tileSetID # state.tileSetID
                 /\ \A n \in 1..Len(L) : Called(calls', L[n])
                 /\ \A n, m \in 1..Len(L) :
                        /\ calls'[FirstCall(calls', L[n])].err
                               = calls'[FirstCall(calls', L[m])].err
                        /\ n < m => FirstCall(calls', L[n]) < FirstCall(calls', L[m])]_vars

\* C3 witness: the load completion of a render with two consumers has
\* called both, first attached first, with one outcome, and emptied the
\* registry.
C3_Witness ==
    /\ Len(calls) = 2
    /\ calls[1].consumer < calls[2].consumer
    /\ calls[1].err = calls[2].err
    /\ calls[1].err.kind \in {"null", "tiles not available"}
    /\ pendingRenders = <<>>

\* C4: once a pending render has been torn down by a cancellation before its
\* continuation ran, no later handler asks the painter to render, nor a
\* canvas to drawImage or clearRect, for that renderId.
C4_CanceledNeverComposited ==
    [][\A k \in 1..Len(ops') :
           ops'[k].op \in {"render", "drawImage", "clearRect"}
               => ops'[k].rid \notin canceled]_vars

\* C4 witness: a render was canceled while its tile was loading, and the
\* tile load has completed since: its continuation is due.
C4_Witness ==
    \E rid \in canceled :
        /\ ~continuations[rid].ran
        /\ continuations[rid].tiles # <<>>
        /\ \A ii \in 1..Len(continuations[rid].tiles) :
               tiles[continuations[rid].tiles[ii]].promise # "pending"

\* C5: a tile in use is the entry of _tilesInUse under its key and not in
\* the cache, a cached tile is not in use, and no tile is in both.
C5_OneOwningCollection ==
    \A t \in 1..Len(tiles) :
        LET tile == tiles[t]
        IN tile.cache \in Sources =>
               LET inUse == /\ tile.key \in DOMAIN tilesInUse[tile.cache]
                            /\ tilesInUse[tile.cache][tile.key] = t
                   cached == t \in Range(tileCache[tile.cache])
               IN /\ tile.uses > 0 => (inUse /\ ~cached)
                  /\ cached => tile.uses = 0
                  /\ ~(inUse /\ cached)

\* C6: the acquirers that hold a coordinate at the same time hold one Tile
\* with one load handle: no two Tile objects in use for one coordinate of a
\* source both carry a load handle (a fetch issued for each).
C6_OneFetchPerCoordinate ==
    \A t1, t2 \in 1..Len(tiles) :
        (/\ tiles[t1].cache \in Sources
         /\ tiles[t1].cache = tiles[t2].cache
         /\ tiles[t1].key = tiles[t2].key
         /\ tiles[t1].uses > 0 /\ tiles[t2].uses > 0
         /\ tiles[t1].loadedPromise = "set" /\ tiles[t2].loadedPromise = "set")
            => t1 = t2

\* C7: releaseRender with a handle whose render is no longer registered under
\* the handle's renderId calls no consumer, leaves the registry (and so every
\* consumer list) as it is, and takes one use from each tile of the handle
\* and none from any other tile.
C7_ReleaseSettledHandle ==
    [][\A c \in 1..Len(handles) :
           (/\ ~handles[c].released
            /\ handles'[c].released
            /\ ~Registered(handles[c].tileSetID, handles[c].renderId))
           => /\ calls' = <<>>
              /\ pendingRenders' = pendingRenders
              /\ \A t \in 1..Len(tiles) :
                     tiles'[t].uses = tiles[t].uses
                         - (IF t \in Range(handles[c].tiles) THEN 1 ELSE 0)]_vars

\* C7 witness: the last handler was a releaseRender that called no consumer
\* and released a tile.
C7_Witness ==
    /\ Len(ops) >= 1
    /\ ops[1].op = "releaseRender"
    /\ calls = <<>>
    /\ \E s \in Sources : tileCache[s] # <<>>

\* C8: releaseRender with a handle whose render is registered under the
\* handle's renderId calls next of that consumer with 'canceled' and leaves
\* it in no consumer list; called by the caller (not from inside a callback)
\* it calls no other consumer, takes exactly that consumer out of the list,
\* and removes the pending render when the list is then empty.  A renderTiles
\* call for a fingerprint with no entry registers a new state under a new
\* renderId with tiles acquired for it alone.
C8_ReleasePendingHandle ==
    [][/\ \A c \in 1..Len(handles) :
              LET h == handles[c]
              IN (/\ ~h.released
                  /\ handles'[c].released
                  /\ Registered(h.tileSetID, h.renderId))
                 => LET i == RegisteredAt(h.tileSetID)
                        others(x) == x # c
                        rest == SelectSeq(pendingRenders[i].consumers, others)
                    IN /\ Called(calls', c)
                       /\ \E k \in 1..Len(calls') :
                              calls'[k] = [consumer |-> c, err |-> Canceled]
                       /\ \A j \in 1..Len(pendingRenders') :
                              c \notin Range(pendingRenders'[j].consumers)
                       /\ ops'[1].op = "releaseRender"
                              => /\ calls' = <<[consumer |-> c, err |-> Canceled]>>
                                 /\ pendingRenders' =
                                        IF rest = <<>>
                                        THEN SubSeq(pendingRenders, 1, i - 1)
                                                 \o SubSeq(pendingRenders, i + 1,
                                                           Len(pendingRenders))
                                        ELSE [pendingRenders EXCEPT ![i].consumers = rest]
       /\ (/\ SubmitStep
           /\ \A i \in 1..Len(pendingRenders) :
                  pendingRenders[i].tileSetID # handles'[Len(consumers')].tileSetID)
          => LET c == Len(consumers')
                 h == handles'[c]
             IN /\ nextRenderId' = nextRenderId + 1
                /\ h.renderId = nextRenderId'
                /\ \A j \in 1..Len(handles) : handles[j].renderId < h.renderId
                /\ pendingRenders' =
                       Append(pendingRenders,
                              [tileSetID |-> h.tileSetID, renderId |-> h.renderId,
                               tiles |-> h.tiles, consumers |-> <<c>>])
                /\ h.tiles = [k \in 1..Len(consumers'[c].tilesSpec) |-> Len(tiles) + k]
                /\ \A k \in 1..Len(h.tiles) : tiles'[h.tiles[k]].uses = 1]_vars

\* C8 witness: the only consumer of a pending render has released its
\* handle: it alone was called, with 'canceled', and the registry is empty.
C8_Witness ==
    /\ Len(ops) >= 1
    /\ ops[1].op = "releaseRender"
    /\ calls = <<[consumer |-> ops[1].target, err |-> Canceled]>>
    /\ ops[1].rid \in canceled
    /\ pendingRenders = <<>>

\* the continuation of render rid runs in this step, finds the render
\* current, and every tile load of it has failed (or it has no tile)
ZeroUsable(rid) ==
    /\ ~continuations[rid].ran
    /\ continuations'[rid].ran
    /\ Registered(continuations[rid].tileSetID, rid)
    /\ \A ii \in 1..Len(continuations[rid].tiles) :
           tiles[continuations[rid].tiles[ii]].promise = "rejected"

\* C9 as claimed: with no usable tile (also for an empty tile list) the
\* painter is not invoked and every attached consumer is settled with the
\* error counting the failed tiles, never with null.
C9_ZeroUsableIsError ==
    [][\A rid \in 1..Len(continuations) :
           ZeroUsable(rid)
           => LET L == pendingRenders[RegisteredAt(continuations[rid].tileSetID)].consumers
                  n == Len(continuations[rid].tiles)
              IN /\ \A k \in 1..Len(ops') : ops'[k].op \notin {"render", "drawImage"}
                 /\ \A j \in 1..Len(L) :
                        /\ Called(calls', L[j])
                        /\ calls'[FirstCall(calls', L[j])].err = NotAvailable(n, n)
                 /\ \A k \in 1..Len(calls') : calls'[k].err # Success]_vars

\* C9 amended: with no usable tile the painter is not invoked; every attached
\* consumer is settled with 'n of n tiles not available' when the tile list
\* has n > 0 tiles, and with null when the tile list is empty.
C9_ZeroUsableOutcome ==
    [][\A rid \in 1..Len(continuations) :
           ZeroUsable(rid)
           => LET L == pendingRenders[RegisteredAt(continuations[rid].tileSetID)].consumers
                  n == Len(continuations[rid].tiles)
              IN /\ \A k \in 1..Len(ops') : ops'[k].op \notin {"render", "drawImage"}
                 /\ \A j \in 1..Len(L) :
                        /\ Called(calls', L[j])
                        /\ calls'[FirstCall(calls', L[j])].err
                               = IF n = 0 THEN Success ELSE NotAvailable(n, n)]_vars

\* C9 witness: a render whose one tile failed has cleared its consumer's
\* canvas and settled it with '1 of 1 tiles not available'.
C9_Witness ==
    /\ \E k \in 1..Len(ops) : ops[k].op = "clearRect"
    /\ Len(calls) >= 1
    /\ calls[1].err = NotAvailable(1, 1)

\* C10: every rectangle cleared in the zero-usable-tiles case is the
\* destination rectangle of the consumer whose canvas is cleared.
C10_ClearsOwnRectangle ==
    [][\A k \in 1..Len(ops') :
           ops'[k].op = "clearRect"
           => LET d == consumers[ops'[k].target].drawSpec
              IN ops'[k].rect = <<d.destLeft, d.destTop, d.width, d.height>>]_vars


\* the continuation of render rid runs in this step and finds the render current
RunsCurrent(rid) ==
    /\ ~continuations[rid].ran
    /\ continuations'[rid].ran
    /\ Registered(continuations[rid].tileSetID, rid)

\* the tiles of render rid whose load has failed / has succeeded, as the
\* continuation finds them
FailedTiles(rid) ==
    {ii \in 1..Len(continuations[rid].tiles) :
         tiles[continuations[rid].tiles[ii]].promise = "rejected"}

\* the tiles of source s among those of render rid that loaded, in list order
LoadedOfSource(rid, s) ==
    LET k == continuations[rid]
        ok(ii) == ii \notin FailedTiles(rid) /\ k.tilesSpec[ii].source = s
        idxs == SelectSeq([ii \in 1..Len(k.tiles) |-> ii], ok)
    IN [j \in 1..Len(idxs) |-> k.tiles[idxs[j]]]

\* C11: when the continuation of a current render finds some, but not all,
\* of its tiles failed, the painter is asked to render (the draw regions of
\* the model are not empty), every painter call has, for every source, exactly
\* the tiles that loaded in currentlyRenderingTiles, and every attached
\* consumer is settled with 'f of n tiles not available', f the number of
\* failed tiles and n the number of tiles; when no tile failed (and there is a
\* tile) every attached consumer is settled with null.
C11_PartialFailure ==
    [][\A rid \in 1..Len(continuations) :
           (RunsCurrent(rid) /\ Cardinality(FailedTiles(rid)) < Len(continuations[rid].tiles))
           => LET L == pendingRenders[RegisteredAt(continuations[rid].tileSetID)].consumers
                  f == Cardinality(FailedTiles(rid))
                  n == Len(continuations[rid].tiles)
              IN /\ \E k \in 1..Len(ops') : ops'[k].op = "render"
                 /\ \A k \in 1..Len(ops') :
                        ops'[k].op = "render"
                            => \A s \in Sources : ops'[k].tiles[s] = LoadedOfSource(rid, s)
                 /\ \A j \in 1..Len(L) :
                        /\ Called(calls', L[j])
                        /\ calls'[FirstCall(calls', L[j])].err
                               = IF f = 0 THEN Success ELSE NotAvailable(f, n)]_vars

\* C11 witness: a render of two tiles, one of which failed, has been painted
\* with the other tile alone and settled with '1 of 2 tiles not available'.
C11_Witness ==
    /\ \E k \in 1..Len(ops) :
           /\ ops[k].op = "render"
           /\ Len(ops[k].tiles["a"]) = 1
           /\ tiles[ops[k].tiles["a"][1]].promise = "resolved"
    /\ Len(calls) >= 1
    /\ calls[1].err = NotAvailable(1, 2)


\* the consumers attached to some pending render
Attached == UNION {Range(pendingRenders[i].consumers) : i \in 1..Len(pendingRenders)}

\* the number of calls of next of consumer c among cs
CallCount(cs, c) == Cardinality({i \in 1..Len(cs) : cs[i].consumer = c})

\* C12: a call of _cancelAllPendingRenders leaves the registry empty, has
\* called next of every consumer that was attached to a pending render
\* exactly once, with 'canceled', and has called invalidateAllLoadedTiles
\* of every source cache.
C12_CancelAll ==
    [][(ops' # <<>> /\ ops'[1].op = "cancelAllPendingRenders")
       => /\ pendingRenders' = <<>>
          /\ \A c \in Attached :
                 /\ CallCount(calls', c) = 1
                 /\ \A i \in 1..Len(calls') :
                        calls'[i].consumer = c => calls'[i].err = Canceled
          /\ \A s \in Sources :
                 \E k \in 1..Len(ops') :
                     /\ ops'[k].op = "invalidateAllLoadedTiles"
                     /\ ops'[k].tiles = <<s>>]_vars


ReleaseStep == ops' # <<>> /\ ops'[1].op = "releaseTile"

\* the step calls this backend operation on tile t
Backend(name, t) == \E k \in 1..Len(ops') : ops'[k].op = name /\ ops'[k].target = t

\* C14: no tile ever has a negative usage count, and releaseTile on a tile
\* whose usage count is 0 fails the assertion, leaves every tile (its usage
\* count included), _tilesInUse and the cache as they are and calls no
\* backend operation.
C14_UsesNeverNegative ==
    [][/\ \A t \in 1..Len(tiles') : tiles'[t].uses >= 0
       /\ (ReleaseStep /\ tiles[ops'[1].target].uses = 0)
          => /\ thrown'
             /\ tiles' = tiles
             /\ tilesInUse' = tilesInUse
             /\ tileCache' = tileCache
             /\ Len(ops') = 1]_vars

\* C14 witness: the caller has released a cached tile it holds no use of,
\* and the assertion has failed.
C14_Witness ==
    /\ thrown
    /\ ops # <<>>
    /\ ops[1].op = "releaseTile"
    /\ tiles[ops[1].target].uses = 0
    /\ ops[1].target \in Range(tileCache["a"])

\* C15: releaseTile on a tile with usage count 1 takes its key out of
\* _tilesInUse; a tile that has data or is a dud becomes the newest entry of
\* the cache and is neither aborted nor unloaded; any other tile is aborted
\* and unloaded and the cache stays as it is.  On a tile with a higher usage
\* count it only decrements the count: no collection changes and no backend
\* operation is called.
C15_ReleaseToZero ==
    [][(ReleaseStep /\ tiles[ops'[1].target].uses > 0)
       => LET t == ops'[1].target
              tile == tiles[t]
              s == tile.cache
          IN IF tile.uses = 1
             THEN /\ tiles'[t].uses = 0
                  /\ tile.key \notin DOMAIN tilesInUse'[s]
                  /\ IF tile.hasData \/ tile.isDud
                     THEN /\ tileCache'[s] # <<>>
                          /\ tileCache'[s][Len(tileCache'[s])] = t
                          /\ t \notin Range(tileCache[s])
                          /\ ~Backend("abortTile", t)
                          /\ ~Backend("unloadTile", t)
                     ELSE /\ Backend("abortTile", t)
                          /\ Backend("unloadTile", t)
                          /\ tileCache' = tileCache
             ELSE /\ tiles'[t].uses = tile.uses - 1
                  /\ tilesInUse' = tilesInUse
                  /\ tileCache' = tileCache
                  /\ Len(ops') = 1]_vars

\* C15 witness: a tile released while it was loading has been aborted and
\* unloaded, and is not in the cache.
C15_Witness ==
    /\ ops # <<>>
    /\ ops[1].op = "releaseTile"
    /\ \E k \in 1..Len(ops) : ops[k].op = "abortTile" /\ ops[k].target = ops[1].target
    /\ \E k \in 1..Len(ops) : ops[k].op = "unloadTile" /\ ops[k].target = ops[1].target
    /\ ops[1].target \notin Range(tileCache["a"])
    /\ ~thrown

\* C19: the cache never holds more than TILE_CACHE_SIZE tiles; when
\* releaseTile caches a tile while the cache holds TILE_CACHE_SIZE tiles, the
\* tile cached longest ago leaves the cache, the other entries keep their
\* order, the released tile becomes the newest, and unloadTile is called once,
\* on the tile that left.
C19_LruEviction ==
    [][/\ \A s \in Sources : Len(tileCache'[s]) <= TILE_CACHE_SIZE
       /\ (/\ ReleaseStep
           /\ tiles[ops'[1].target].uses = 1
           /\ tiles[ops'[1].target].hasData \/ tiles[ops'[1].target].isDud
           /\ Len(tileCache[tiles[ops'[1].target].cache]) = TILE_CACHE_SIZE)
          => LET t == ops'[1].target
                 s == tiles[t].cache
                 unloads == {k \in 1..Len(ops') : ops'[k].op = "unloadTile"}
             IN /\ tileCache'[s] = Tail(tileCache[s]) \o <<t>>
                /\ Cardinality(unloads) = 1
                /\ \A k \in unloads : ops'[k].target = Head(tileCache[s])]_vars

\* C19 witness: a release has just pushed the oldest tile out of a full
\* cache and unloaded it.
C19_Witness ==
    /\ Len(tileCache["a"]) = TILE_CACHE_SIZE
    /\ ops # <<>>
    /\ ops[1].op = "releaseTile"
    /\ \E k \in 1..Len(ops) : ops[k].op = "unloadTile" /\ ops[k].target # ops[1].target
    /\ tileCache["a"][TILE_CACHE_SIZE] = ops[1].target


\* C16: _canonicalizeSpec of a request and of the same request moved by
\* (dx, dy) return the same tile specs and the same source origin, hence the
\* same fingerprint; in the result of a request with tiles the least left and
\* the least top of the tile specs are 0; destLeft, destTop, width and height
\* are those given.
C16_TranslationInvariant ==
    (output # <<>> /\ output.method = "_canonicalizeSpec")
    => LET A == output.plain
           B == output.moved
           D == input.drawSpec
           T == A.tilesSpec
       IN /\ A.tilesSpec = B.tilesSpec
          /\ A.drawSpec.srcLeft = B.drawSpec.srcLeft
          /\ A.drawSpec.srcTop = B.drawSpec.srcTop
          /\ output.plainID = output.movedID
          /\ Len(T) = Len(input.tilesSpec)
          /\ T # <<>> =>
                 /\ \E i \in 1..Len(T) : T[i].left = 0
                 /\ \E i \in 1..Len(T) : T[i].top = 0
                 /\ \A i \in 1..Len(T) : T[i].left >= 0 /\ T[i].top >= 0
          /\ \A X \in {A, B} :
                 /\ X.drawSpec.destLeft = D.destLeft
                 /\ X.drawSpec.destTop = D.destTop
                 /\ X.drawSpec.width = D.width
                 /\ X.drawSpec.height = D.height

\* C16 witness: a request of two tiles at different placements, none at the
\* origin, and the request moved have been canonicalized.
C16_Witness ==
    /\ output # <<>>
    /\ output.method = "_canonicalizeSpec"
    /\ Len(input.tilesSpec) = 2
    /\ input.tilesSpec[1].left # input.tilesSpec[2].left
    /\ input.tilesSpec[1].top = -3 /\ input.tilesSpec[2].top = -3
    /\ input.dx = 300 /\ input.dy = 7
    /\ output.plain.tilesSpec # input.tilesSpec

\* every order of the tile list has the fingerprint of the list as given
FingerprintsAgree ==
    (output # <<>> /\ output.method = "_tileSpecToString")
    => output.ids = {output.asGiven}

\* the second request, listing the tiles of the pending render in another
\* order, is attached to that render: no second render is registered and no
\* tile is acquired for it
ReorderedCoalesces ==
    Len(consumers) = 2
    => /\ Len(pendingRenders) = 1
       /\ pendingRenders[1].consumers = <<1, 2>>
       /\ handles[1].renderId = handles[2].renderId
       /\ handles[1].tileSetID = handles[2].tileSetID
       /\ Len(tiles) = Len(input.tilesSpec)
       /\ Len(continuations) = 1

\* C17: _tileSpecToString returns one and the same fingerprint for a tile
\* list given in any order, and a request listing the tiles of a pending
\* render in another order coalesces with it.
C17_OrderIndependent == FingerprintsAgree /\ ReorderedCoalesces

\* C17 witness: a list of three tile specs was submitted, then submitted
\* again in another order, and both handles carry one fingerprint.
C17_Witness ==
    /\ Len(consumers) = 2
    /\ Len(input.tilesSpec) = 3
    /\ consumers[1].tilesSpec # consumers[2].tilesSpec
    /\ consumers[2].tilesSpec[1] = consumers[1].tilesSpec[3]
    /\ handles[1].tileSetID = handles[2].tileSetID


\* a tile of the source is held by a handle that has not been released
InUse(source) ==
    \E t \in 1..Len(tiles) :
        /\ tiles[t].cache = source
        /\ tiles[t].uses > 0
        /\ \E h \in 1..Len(handles) : ~handles[h].released /\ t \in Range(handles[h].tiles)

\* C18: loaded() of a source cache is false when the source reports
\* not-loaded or a tile of the source is in use, and true otherwise.
C18_LoadedIffIdle ==
    \A source \in Sources, sourceLoaded \in BOOLEAN :
        loaded(World, source, sourceLoaded) = ~(~sourceLoaded \/ InUse(source))


\* the handles not yet released whose tiles include tile t
HeldBy(t) ==
    {h \in 1..Len(handles) : ~handles[h].released /\ t \in Range(handles[h].tiles)}

\* C20: the usage count of every tile is the number of unreleased handles
\* that reference it; once every handle has been released every usage count
\* is 0 and _tilesInUse is empty.
C20_UsesCountHandles ==
    /\ \A t \in 1..Len(tiles) : tiles[t].uses = Cardinality(HeldBy(t))
    /\ (\A h \in 1..Len(handles) : handles[h].released)
       => /\ \A t \in 1..Len(tiles) : tiles[t].uses = 0
          /\ \A source \in Sources : DOMAIN tilesInUse[source] = {}

\* C20 witness: a second request attached to the pending render, and the two
\* unreleased handles share a tile of usage count 2.
C20_Witness ==
    \E t \in 1..Len(tiles) : tiles[t].uses = 2 /\ Cardinality(HeldBy(t)) = 2


\* the render ids of the registry entries
RegisteredIds(pending) == {pending[i].renderId : i \in 1..Len(pending)}

\* the continuation of render rid runs in this step and finds no entry of
\* its own: none under its fingerprint, or one with another renderId
StaleContinuationStep(rid) ==
    /\ ~continuations[rid].ran
    /\ continuations'[rid].ran
    /\ \A i \in 1..Len(pendingRenders) :
           pendingRenders[i].tileSetID = continuations[rid].tileSetID
               => pendingRenders[i].renderId # rid

\* C21: render ids only grow, every newly registered render has an id above
\* all ids issued before, and no two entries share one; the continuation of a
\* render that is no longer registered under its id calls neither the
\* painter nor a canvas nor any consumer and leaves the registry as it is.
C21_StaleContinuationNoOp ==
    [][/\ nextRenderId' >= nextRenderId
       /\ \A id \in RegisteredIds(pendingRenders') \ RegisteredIds(pendingRenders) :
              id > nextRenderId /\ id <= nextRenderId'
       /\ \A i, j \in 1..Len(pendingRenders') :
              pendingRenders'[i].renderId = pendingRenders'[j].renderId => i = j
       /\ \A rid \in 1..Len(continuations) :
              StaleContinuationStep(rid)
              => /\ ops' = <<>>
                 /\ calls' = <<>>
                 /\ pendingRenders' = pendingRenders
                 /\ \A c \in 1..Len(consumers) : consumers'[c].signals = consumers[c].signals]_vars

\* C21 witness: render 1 was canceled, render 2 is registered under the same
\* fingerprint with its tile still loading, and the continuation of render
\* 1 has just run without any call.
C21_Witness ==
    /\ Len(handles) = 2
    /\ ~handles[1].released /\ ~handles[2].released
    /\ handles[1].renderId = 1 /\ handles[2].renderId = 2
    /\ handles[1].tileSetID = handles[2].tileSetID
    /\ continuations[1].ran /\ ~continuations[2].ran
    /\ 2 \in RegisteredIds(pendingRenders)
    /\ handles[2].tiles # <<>>
    /\ \A ii \in 1..Len(handles[2].tiles) : tiles[handles[2].tiles[ii]].request = "inflight"
    /\ ops = <<>> /\ calls = <<>>


\* the load timer of tile t fires in this step: the step is the timer's
\* callback, which begins by aborting the fetch
TimeoutStep(t) ==
    /\ tiles[t].timeout = "armed"
    /\ ops' # <<>>
    /\ ops'[1].op = "abortTile"
    /\ ops'[1].target = t

\* nothing refers to tile t any more
Unreachable(t) == tiles'[t].cache = "dead"

\* C22: a load timer that fires while the fetch has not called back calls
\* abortTile on the tile, rejects its load promise with 'timeout' and clears
\* tile.loadedPromise, and leaves every usage count, _tilesInUse and the cache
\* as they are; every acquire issues a fetch; once the fetch has called back
\* the timer is cleared and never fires.
C22_TimeoutAbortsOnly ==
    [][/\ \A t \in (Len(tiles) + 1)..Len(tiles') : Backend("loadTile", t)
       /\ \A t \in 1..Len(tiles) :
           /\ TimeoutStep(t)
              => /\ Len(ops') = 1
                 /\ tiles[t].promise = "pending"
                 /\ tiles[t].request # "called"
                 /\ \/ Unreachable(t)
                    \/ /\ tiles'[t].timeout = "fired"
                       /\ tiles'[t].promise = "rejected"
                       /\ tiles'[t].reason = "timeout"
                       /\ tiles'[t].loadedPromise = "null"
                       /\ tiles'[t].request # "inflight"
                 /\ \A u \in 1..Len(tiles) : tiles'[u].uses = tiles[u].uses
                 /\ tilesInUse' = tilesInUse
                 /\ tileCache' = tileCache
           /\ (tiles[t].request = "inflight" /\ tiles'[t].request = "called")
              => tiles'[t].timeout = "cleared"
           /\ tiles[t].timeout = "cleared"
              => /\ tiles'[t].timeout # "fired"
                 /\ tiles'[t].timeout # "armed"
                 /\ tiles'[t].reason # "timeout"]_vars

\* C22 witness: the timer of a tile in use has fired before its fetch
\* called back; the fetch is aborted, the promise rejected with 'timeout',
\* and the tile is still in use under its key.
C22_Witness ==
    \E t \in 1..Len(tiles) :
        /\ tiles[t].timeout = "fired"
        /\ tiles[t].request = "aborted"
        /\ tiles[t].reason = "timeout"
        /\ tiles[t].uses = 2
        /\ tiles[t].cache = "a"
        /\ tiles[t].key \in DOMAIN tilesInUse["a"]
        /\ tilesInUse["a"][tiles[t].key] = t
        /\ ops # <<>>
        /\ ops[1].op = "abortTile"
        /\ ops[1].target = t


\* the step is a call of invalidateAllLoadedTiles on a source cache
InvalidateStep == ops' # <<>> /\ ops'[1].op = "invalidateAllLoadedTiles"

\* the tiles _tilesInUse and the cache of the source hold
Tracked(source) ==
    {tilesInUse[source][k] : k \in DOMAIN tilesInUse[source]} \cup Range(tileCache[source])

\* C23: invalidateAllLoadedTiles sets loadedPromise to null on every tile in
\* _tilesInUse or in the cache that is not a dud, and changes nothing else:
\* not a dud tile, not an untracked tile, no usage count, no membership of
\* _tilesInUse or of the cache, and it calls no backend operation.
C23_InvalidateClearsNonDuds ==
    [][InvalidateStep
       => LET source == ops'[1].tiles[1]
          IN /\ \A t \in 1..Len(tiles) :
                    IF t \in Tracked(source) /\ ~tiles[t].isDud
                    THEN tiles'[t] = [tiles[t] EXCEPT !.loadedPromise = "null"]
                    ELSE tiles'[t] = tiles[t]
             /\ Len(tiles') = Len(tiles)
             /\ tilesInUse' = tilesInUse
             /\ tileCache' = tileCache
             /\ Len(ops') = 1
             /\ calls' = <<>>]_vars

\* C23 witness: invalidateAllLoadedTiles has run with a dud tile and a
\* loaded tile in the cache and a loaded tile in use; the dud keeps its load
\* promise and the other two have lost theirs.
C23_Witness ==
    /\ ops # <<>>
    /\ ops[1].op = "invalidateAllLoadedTiles"
    /\ \E d, c \in Range(tileCache["a"]), u \in 1..Len(tiles) :
           /\ tiles[d].isDud /\ tiles[d].loadedPromise = "set"
           /\ ~tiles[c].isDud /\ tiles[c].hasData /\ tiles[c].loadedPromise = "null"
           /\ tiles[u].uses > 0 /\ tiles[u].hasData /\ tiles[u].loadedPromise = "null"
           /\ tiles[u].key \in DOMAIN tilesInUse["a"]


\* the continuation of render rid runs in this step, finds its render
\* registered and at least one of its tiles loaded: it composites
CompositeStep(rid) ==
    /\ ~continuations[rid].ran
    /\ continuations'[rid].ran
    /\ rid \in RegisteredIds(pendingRenders)
    /\ \E ii \in 1..Len(continuations[rid].tiles) :
           tiles[continuations[rid].tiles[ii]].promise # "rejected"

\* the consumers attached to render rid
AttachedTo(rid) ==
    UNION {Range(pendingRenders[i].consumers) :
               i \in {j \in 1..Len(pendingRenders) : pendingRenders[j].renderId = rid}}

SrcOf(c) == consumers[c].drawSpec

Least(S) == CHOOSE v \in S : \A u \in S : v <= u
Greatest(S) == CHOOSE v \in S : \A u \in S : v >= u

\* the origins of the blocks that cover [from, to)
Grid(from, to) == {v \in from..(to - 1) : (v - from) % OFFSCREEN_CANV_SIZE = 0}

GridX(L) == Grid(Least({SrcOf(c).srcLeft : c \in L}),
                 Greatest({SrcOf(c).srcLeft + SrcOf(c).width : c \in L}))
GridY(L) == Grid(Least({SrcOf(c).srcTop : c \in L}),
                 Greatest({SrcOf(c).srcTop + SrcOf(c).height : c \in L}))

\* the half-open rectangles of consumer c and of the block at (xx, yy) overlap
Overlaps(c, xx, yy) ==
    /\ SrcOf(c).srcLeft < xx + OFFSCREEN_CANV_SIZE
    /\ xx < SrcOf(c).srcLeft + SrcOf(c).width
    /\ SrcOf(c).srcTop < yy + OFFSCREEN_CANV_SIZE
    /\ yy < SrcOf(c).srcTop + SrcOf(c).height

\* the calls of the painter for render rid with the canvas at (xx, yy)
PainterCalls(rid, xx, yy) ==
    {k \in 1..Len(ops') :
         ops'[k].op = "render" /\ ops'[k].rid = rid /\ ops'[k].rect = <<xx, yy>>}

\* C24: a continuation that composites calls the painter once for every
\* block of the grid over the bounding box of the attached consumers' source
\* rectangles that some consumer overlaps, never for a block no consumer
\* overlaps (touching is not overlapping), and for nothing outside the grid.
C24_OneRenderPerOverlappedBlock ==
    [][\A rid \in 1..Len(continuations) :
           (CompositeStep(rid) /\ AttachedTo(rid) # {})
           => LET L == AttachedTo(rid)
              IN /\ \A xx \in GridX(L), yy \in GridY(L) :
                        Cardinality(PainterCalls(rid, xx, yy))
                            = IF \E c \in L : Overlaps(c, xx, yy) THEN 1 ELSE 0
                 /\ \A k \in 1..Len(ops') :
                        ops'[k].op = "render"
                        => /\ ops'[k].rid = rid
                           /\ ops'[k].rect[1] \in GridX(L)
                           /\ ops'[k].rect[2] \in GridY(L)]_vars

\* C24 witness: a render with a consumer at the origin and one two blocks to
\* the right has been composited: the painter ran for the blocks at 0 and at
\* 2048 and not for the block between them.
C24_Witness ==
    /\ \E k \in 1..Len(ops) : ops[k].op = "render" /\ ops[k].rect = <<0, 0>>
    /\ \E k \in 1..Len(ops) : ops[k].op = "render" /\ ops[k].rect = <<2048, 0>>
    /\ \A k \in 1..Len(ops) : ops[k].op = "render" => ops[k].rect # <<1024, 0>>
    /\ Len(calls) = 2


\* the drawImage calls of the step on the canvas of consumer c
Copies(c) == {k \in 1..Len(ops') : ops'[k].op = "drawImage" /\ ops'[k].target = c}

\* the block on the offscreen canvas when call k is made: that of the last
\* painter call before it
BlockOf(k) ==
    LET j == Greatest({i \in 1..k : ops'[i].op = "render"})
    IN ops'[j].rect

\* the destination rectangle call k writes: left, top, right, bottom
DestOf(k) ==
    LET r == ops'[k].rect
    IN <<r[5], r[6], r[5] + r[7], r[6] + r[8]>>

Disjoint(a, b) == a[3] <= b[1] \/ b[3] <= a[1] \/ a[4] <= b[2] \/ b[4] <= a[2]

Area(a) == (a[3] - a[1]) * (a[4] - a[2])

RECURSIVE SumArea(_)
SumArea(K) ==
    IF K = {} THEN 0
    ELSE LET k == CHOOSE x \in K : TRUE
         IN Area(DestOf(k)) + SumArea(K \ {k})

\* C25: every drawImage of a composited render copies the intersection of
\* the consumer's source rectangle with the block on the canvas, of positive
\* width and height, unscaled, to the destination position moved by the
\* offset of the intersection inside the source rectangle; the copies of one
\* consumer are pairwise disjoint and cover its destination rectangle.
C25_CopiesTileDestination ==
    [][\A rid \in 1..Len(continuations) :
           (CompositeStep(rid) /\ AttachedTo(rid) # {})
           => \A c \in AttachedTo(rid) :
                  LET d == SrcOf(c)
                      dest == <<d.destLeft, d.destTop,
                                d.destLeft + d.width, d.destTop + d.height>>
                  IN /\ \A k \in Copies(c) :
                            LET xx == BlockOf(k)[1]
                                yy == BlockOf(k)[2]
                                left == Max(d.srcLeft, xx)
                                right == Min(d.srcLeft + d.width, xx + OFFSCREEN_CANV_SIZE)
                                top == Max(d.srcTop, yy)
                                bottom == Min(d.srcTop + d.height, yy + OFFSCREEN_CANV_SIZE)
                            IN /\ left < right /\ top < bottom
                               /\ ops'[k].rect = <<left - xx, top - yy,
                                                   right - left, bottom - top,
                                                   d.destLeft + (left - d.srcLeft),
                                                   d.destTop + (top - d.srcTop),
                                                   right - left, bottom - top>>
                     /\ \A k1, k2 \in Copies(c) :
                            k1 # k2 => Disjoint(DestOf(k1), DestOf(k2))
                     /\ \A k \in Copies(c) :
                            /\ dest[1] <= DestOf(k)[1] /\ DestOf(k)[3] <= dest[3]
                            /\ dest[2] <= DestOf(k)[2] /\ DestOf(k)[4] <= dest[4]
                     /\ SumArea(Copies(c)) = Area(dest)]_vars

\* C25 witness: the consumer whose source rectangle straddles the corner of
\* four blocks has received four copies.
C25_Witness ==
    \E c \in 1..Len(consumers) :
        /\ consumers[c].drawSpec = DrawSpec(1000, 1000, 100, 100, 3, 4)
        /\ Cardinality({k \in 1..Len(ops) : ops[k].op = "drawImage" /\ ops[k].target = c}) = 4
        /\ \E k \in 1..Len(ops) :
               /\ ops[k].op = "drawImage"
               /\ ops[k].target = c
               /\ ops[k].rect = <<0, 0, 76, 76, 27, 28, 76, 76>>


\* the outcomes of a render that reached its consumers' canvases: success
\* and `N of M tiles not available`
Rendered(err) == err.kind \in {"null", "tiles not available"}

\* C26: a consumer called with success or with a tile failure has had its
\* canvas written in the same step (drawImage, or clearRect when no tile was
\* usable), also when it attached from inside the callback of another
\* consumer of the render being settled.
C26_DrawnBeforeSettled ==
    [][\A i \in 1..Len(calls') :
           Rendered(calls'[i].err)
           => \E k \in 1..Len(ops') :
                  /\ ops'[k].op \in {"drawImage", "clearRect"}
                  /\ ops'[k].target = calls'[i].consumer]_vars

====
